---- MODULE Spec2Model ----
(***************************************************************************)
(* A model of the CFR training engine (cfr/cfr_trainer.py), its regret     *)
(* accumulator (cfr/info_set.py) and the Kuhn poker game state             *)
(* (cfr/__main__.py) it is trained on.                                     *)
(*                                                                         *)
(* Python floats are modelled as exact rationals <<n, d>> in lowest terms  *)
(* with d > 0.  The recursive traversal _cfr is modelled with an explicit  *)
(* call stack, one frame per active call.                                  *)
(***************************************************************************)
EXTENDS Integers, Sequences, FiniteSets, TLC

(***************************************************************************)
(* Bounds of the model.                                                    *)
(***************************************************************************)
\* the engine's iteration counter never passes MaxIter
MaxIter == 3
\* check_interval is drawn from 1..MaxInterval
MaxInterval == 2
\* the whole game (the chance root) is trained only in the first round of a fresh
\* engine: the exact sums over its twelve accumulators pass 32 bits in the second
WholeGameRounds == 0..1

(***************************************************************************)
(* Rational arithmetic (the model of float).                               *)
(***************************************************************************)
Abs(n) == IF n < 0 THEN -n ELSE n

RECURSIVE GCD(_, _)
GCD(a, b) == IF b = 0 THEN a ELSE GCD(b, a % b)

Norm(n, d) ==
    LET g == GCD(Abs(n), d)
    IN  IF n = 0 THEN <<0, 1>> ELSE <<n \div g, d \div g>>

Zero == <<0, 1>>
One == <<1, 1>>
RInt(n) == <<n, 1>>
\* sums and products reduce before they multiply, to keep the integers small
RAdd(a, b) ==
    LET g == GCD(a[2], b[2])
    IN  Norm(a[1] * (b[2] \div g) + b[1] * (a[2] \div g), (a[2] \div g) * b[2])
RNeg(a) == <<-a[1], a[2]>>
RSub(a, b) == RAdd(a, RNeg(b))
RMul(a, b) ==
    LET g == GCD(Abs(a[1]), b[2])
        h == GCD(Abs(b[1]), a[2])
    IN  IF a[1] = 0 \/ b[1] = 0 THEN <<0, 1>>
        ELSE <<(a[1] \div g) * (b[1] \div h), (a[2] \div h) * (b[2] \div g)>>
\* a / b for b # 0
RDiv(a, b) ==
    IF b[1] > 0 THEN RMul(a, <<b[2], b[1]>>) ELSE RMul(a, <<-b[2], -b[1]>>)
\* n1/d1 < n2/d2 for n1, n2 >= 0, by the integer parts and then the
\* reciprocals of the fractional parts (no products, so no overflow)
RECURSIVE LtPos(_, _, _, _)
LtPos(n1, d1, n2, d2) ==
    IF n1 \div d1 # n2 \div d2 THEN n1 \div d1 < n2 \div d2
    ELSE IF n2 % d2 = 0 THEN FALSE
    ELSE IF n1 % d1 = 0 THEN TRUE
    ELSE LtPos(d2, n2 % d2, d1, n1 % d1)
RLt(a, b) ==
    IF a[1] < 0 /\ b[1] >= 0 THEN TRUE
    ELSE IF a[1] >= 0 /\ b[1] < 0 THEN FALSE
    ELSE IF a[1] >= 0 THEN LtPos(a[1], a[2], b[1], b[2])
    ELSE LtPos(-b[1], b[2], -a[1], a[2])
RLe(a, b) == ~RLt(b, a)
RAbs(a) == <<Abs(a[1]), a[2]>>
RMax(a, b) == IF RLt(a, b) THEN b ELSE a

\* the sum of f[s[k]] over the positions k of the sequence s
RECURSIVE RSumOver(_, _)
RSumOver(f, s) ==
    IF s = <<>> THEN Zero ELSE RAdd(f[Head(s)], RSumOver(f, Tail(s)))

SeqRange(s) == {s[k] : k \in 1..Len(s)}

\* n ** e for an integer n >= 1 and an integer exponent e >= 0
RECURSIVE IPow(_, _)
IPow(n, e) == IF e = 0 THEN 1 ELSE n * IPow(n, e - 1)

\* the square root of an integer x >= 0, exact when x is a perfect square and
\* otherwise rounded down to a multiple of 1/16 (float rounds it to 2^-52)
RSqrt(x) ==
    LET r == CHOOSE r \in 0..(16 * x) : r * r <= 256 * x /\ (r + 1) * (r + 1) > 256 * x
    IN  Norm(r, 16)

\* t ** e for an integer t >= 1 and a rational exponent e = k or k/2, k >= 0
RPow(t, e) ==
    IF e[2] = 1 THEN RInt(IPow(t, e[1])) ELSE RSqrt(IPow(t, e[1]))

(***************************************************************************)
(* The game: KuhnPokerState.                                               *)
(***************************************************************************)
PASS == "Pass"
BET == "Bet"
\* cards is None
NoCards == <<>>

Deals == <<"JQ", "JK", "QJ", "QK", "KJ", "KQ">>

KuhnPokerState(cards, history) == [cards |-> cards, history |-> history]

is_terminal(s) == s.history \in {"pp", "bp", "pbb", "bb", "pbp"}

get_utility(s, player) ==
    IF ~is_terminal(s) THEN Zero
    ELSE IF s.history = "pp" THEN
        IF s.cards[1] > s.cards[2] THEN (IF player = 0 THEN RInt(1) ELSE RInt(-1))
        ELSE IF s.cards[1] < s.cards[2] THEN (IF player = 0 THEN RInt(-1) ELSE RInt(1))
        ELSE Zero
    ELSE IF s.history = "bp" THEN (IF player = 0 THEN RInt(1) ELSE RInt(-1))
    ELSE IF s.history = "pbp" THEN (IF player = 0 THEN RInt(-1) ELSE RInt(1))
    ELSE IF s.history \in {"pbb", "bb"} THEN
        IF s.cards[1] > s.cards[2] THEN (IF player = 0 THEN RInt(2) ELSE RInt(-2))
        ELSE IF s.cards[1] < s.cards[2] THEN (IF player = 0 THEN RInt(-2) ELSE RInt(2))
        ELSE Zero
    ELSE Zero

get_current_player(s) ==
    IF s.cards = NoCards THEN -1
    ELSE IF is_terminal(s) THEN -1
    ELSE IF s.history = "" THEN 0
    ELSE IF s.history \in {"p", "b"} THEN 1
    ELSE IF s.history = "pb" THEN 0
    ELSE -1

card_names == <<"J", "Q", "K">>

\* a get_infoset_key that raises at chance nodes only
infoset_key_raises_terminal_missed(s) == s.cards = NoCards

\* raises ValueError at a state with no acting player
infoset_key_raises(s) == get_current_player(s) = -1

\* the key when get_infoset_key does not raise; cards[-1] is Python's last element
get_infoset_key(s) ==
    LET player == get_current_player(s)
        card == IF player = -1 THEN s.cards[Len(s.cards)] ELSE s.cards[player + 1]
    IN  card_names[card + 1] \o ":" \o s.history

get_actions(s) == <<PASS, BET>>

deal_to_cards(deal_name) ==
    CASE deal_name = "JQ" -> <<0, 1>>
      [] deal_name = "JK" -> <<0, 2>>
      [] deal_name = "QJ" -> <<1, 0>>
      [] deal_name = "QK" -> <<1, 2>>
      [] deal_name = "KJ" -> <<2, 0>>
      [] deal_name = "KQ" -> <<2, 1>>

take_action(s, action) ==
    IF s.cards = NoCards /\ action \in SeqRange(Deals)
    THEN KuhnPokerState(deal_to_cards(action), s.history)
    ELSE IF action = PASS THEN KuhnPokerState(s.cards, s.history \o "p")
    ELSE KuhnPokerState(s.cards, s.history \o "b")

get_chance_probabilities(s) ==
    IF s.cards # NoCards THEN <<>>
    ELSE [a \in SeqRange(Deals) |-> Norm(1, Len(Deals))]

(***************************************************************************)
(* The regret accumulator: InfoSet.                                        *)
(***************************************************************************)
InfoSet(key, actions, player) ==
    [key |-> key, actions |-> actions, player |-> player,
     num_actions |-> Len(actions),
     regret_sum |-> [a \in SeqRange(actions) |-> Zero],
     strategy_sum |-> [a \in SeqRange(actions) |-> Zero],
     reach_probability_sum |-> Zero]

\* regret matching that forgets the positive part
RegretMatching_signed(I) ==
    LET normalizing_sum == RSumOver(I.regret_sum, I.actions)
    IN  IF RLt(Zero, normalizing_sum)
        THEN [a \in SeqRange(I.actions) |-> RDiv(I.regret_sum[a], normalizing_sum)]
        ELSE [a \in SeqRange(I.actions) |-> Norm(1, I.num_actions)]

\* the distribution get_strategy derives by regret matching
RegretMatching(I) ==
    LET pos == [a \in SeqRange(I.actions) |-> RMax(Zero, I.regret_sum[a])]
        normalizing_sum == RSumOver(pos, I.actions)
    IN  IF RLt(Zero, normalizing_sum)
        THEN [a \in SeqRange(I.actions) |-> RDiv(pos[a], normalizing_sum)]
        ELSE [a \in SeqRange(I.actions) |-> Norm(1, I.num_actions)]

\* the accumulator after get_strategy(realization_weight)
get_strategy(I, realization_weight) ==
    LET strategy == RegretMatching(I)
    IN  [I EXCEPT
           !.strategy_sum = [a \in SeqRange(I.actions) |->
               RAdd(I.strategy_sum[a], RMul(realization_weight, strategy[a]))],
           !.reach_probability_sum = RAdd(I.reach_probability_sum, realization_weight)]

\* an average strategy that forgets to normalize
get_average_strategy_raw(I) ==
    LET normalizing_sum == RSumOver(I.strategy_sum, I.actions)
    IN  IF RLt(Zero, normalizing_sum)
        THEN [a \in SeqRange(I.actions) |-> I.strategy_sum[a]]
        ELSE [a \in SeqRange(I.actions) |-> Norm(1, I.num_actions)]

get_average_strategy(I) ==
    LET normalizing_sum == RSumOver(I.strategy_sum, I.actions)
    IN  IF RLt(Zero, normalizing_sum)
        THEN [a \in SeqRange(I.actions) |-> RDiv(I.strategy_sum[a], normalizing_sum)]
        ELSE [a \in SeqRange(I.actions) |-> Norm(1, I.num_actions)]

update_regret(I, action, regret) ==
    [I EXCEPT !.regret_sum[action] = RAdd(I.regret_sum[action], regret)]

\* a floor with the comparison reversed
apply_regret_floor_reversed(I) ==
    [I EXCEPT !.regret_sum = [a \in SeqRange(I.actions) |->
        IF RLt(Zero, I.regret_sum[a]) THEN Zero ELSE I.regret_sum[a]]]

apply_regret_floor(I) ==
    [I EXCEPT !.regret_sum = [a \in SeqRange(I.actions) |->
        IF RLt(I.regret_sum[a], Zero) THEN Zero ELSE I.regret_sum[a]]]

discount_regrets(I, pos_discount, neg_discount) ==
    [I EXCEPT !.regret_sum = [a \in SeqRange(I.actions) |->
        IF RLt(Zero, I.regret_sum[a])
        THEN RMul(I.regret_sum[a], pos_discount)
        ELSE RMul(I.regret_sum[a], neg_discount)]]

discount_strategy(I, discount) ==
    [I EXCEPT
       !.strategy_sum = [a \in SeqRange(I.actions) |-> RMul(I.strategy_sum[a], discount)],
       !.reach_probability_sum = RMul(I.reach_probability_sum, discount)]

(***************************************************************************)
(* The training engine: CFRTrainer.                                        *)
(***************************************************************************)
VARIABLES
    variant,          \* self.variant
    infosets,         \* self.infosets: key -> InfoSet
    iteration,        \* self.iteration
    prev_strategies,  \* self.prev_strategies: key -> (action -> probability)
    pc,               \* where the engine is: "idle", or a position inside train
    root_state,       \* train's arguments
    iterations,
    epsilon,
    check_interval,
    i,                \* train's loop variable
    player,           \* the updating player of the running traversal pass
    stack,            \* the active calls of _cfr, the innermost last
    ret,              \* what the last train call returned (-1: nothing yet)
    err,              \* the exception the last call raised ("none": it returned)
    api_state,        \* history: the argument of the last get_infoset call from outside
    iteration0,       \* history: self.iteration when the running train call began
    post_t,           \* history: the t of the last post-iteration update
    step3,            \* history: how the last outer round's convergence step ended
    ckpt              \* history: every accumulator's average strategy at the last
                      \* checkpoint of the running train call (NoCheckpoint: none yet)

vars == <<variant, infosets, iteration, prev_strategies, pc, root_state, iterations,
          epsilon, check_interval, i, player, stack, ret, err, api_state, iteration0,
          post_t, step3, ckpt>>

num_players == 2
Variants == {"vanilla", "cfr_plus", "lcfr", "dcfr"}

\* DCFR parameters (alpha, beta, gamma) = (1.5, 0.0, 2.0)
alpha == <<3, 2>>
beta == <<0, 1>>
gamma == <<2, 1>>

\* the root states train is called with: the whole game, the subgame after a
\* deal and a pass, and a terminal state
RootStates ==
    {KuhnPokerState(NoCards, ""), KuhnPokerState(<<0, 1>>, "p"),
     KuhnPokerState(<<0, 1>>, "pp")}

\* the states get_infoset is called with from outside train
ApiStates ==
    {KuhnPokerState(NoCards, ""), KuhnPokerState(<<2, 1>>, "pb"),
     KuhnPokerState(<<0, 1>>, "pp")}

\* the epsilon arguments: never below it, the default 1e-4, always below it
Epsilons == {Zero, <<1, 10000>>, RInt(100)}

NoCheckpoint == "none" :> "none"
NoState == [cards |-> NoCards, history |-> "none"]

\* get_infoset without the membership test: every call stores a new accumulator
get_infoset_replacing(tbl, state) ==
    LET key == get_infoset_key(state)
    IN  (key :> InfoSet(key, get_actions(state), get_current_player(state))) @@ tbl

get_infoset(tbl, state) ==
    LET key == get_infoset_key(state)
    IN  IF key \notin DOMAIN tbl
        THEN (key :> InfoSet(key, get_actions(state), get_current_player(state))) @@ tbl
        ELSE tbl

get_strategy_profile(tbl) == [key \in DOMAIN tbl |-> get_average_strategy(tbl[key])]

\* the sum of f[x] over the elements x of the finite set S
RECURSIVE RSumSet(_, _)
RSumSet(f, S) ==
    IF S = {} THEN Zero
    ELSE LET x == CHOOSE x \in S : TRUE IN RAdd(f[x], RSumSet(f, S \ {x}))

\* the L1 distance _calculate_strategy_change computes for one accumulator
L1Change(current_strategy, prev_strategy) ==
    RSumSet([action \in DOMAIN current_strategy |->
                RAbs(RSub(current_strategy[action],
                          IF action \in DOMAIN prev_strategy
                          THEN prev_strategy[action] ELSE Zero))],
            DOMAIN current_strategy)

\* a _calculate_strategy_change that refreshes only the keys it compared
calculate_strategy_change_stale(tbl, prev) ==
    LET change == [key \in DOMAIN tbl |->
                      IF key \in DOMAIN prev
                      THEN L1Change(get_average_strategy(tbl[key]), prev[key])
                      ELSE Zero]
    IN  [player_changes |-> [p \in 0..(num_players - 1) |->
             RSumSet(change, {key \in DOMAIN tbl : tbl[key].player = p})],
         prev_strategies |-> [key \in DOMAIN prev |->
             IF key \in DOMAIN tbl THEN get_average_strategy(tbl[key]) ELSE prev[key]]]

\* _calculate_strategy_change: the change per player, and self.prev_strategies after it
calculate_strategy_change(tbl, prev) ==
    LET change == [key \in DOMAIN tbl |->
                      IF key \in DOMAIN prev
                      THEN L1Change(get_average_strategy(tbl[key]), prev[key])
                      ELSE Zero]
    IN  [player_changes |-> [p \in 0..(num_players - 1) |->
             RSumSet(change, {key \in DOMAIN tbl : tbl[key].player = p})],
         prev_strategies |-> [key \in DOMAIN prev \cup DOMAIN tbl |->
             IF key \in DOMAIN tbl THEN get_average_strategy(tbl[key]) ELSE prev[key]]]

\* the else branch's baseline: lines 134-137
store_baseline(tbl, prev) ==
    [key \in DOMAIN prev \cup DOMAIN tbl |->
        IF key \in DOMAIN tbl THEN get_average_strategy(tbl[key]) ELSE prev[key]]

\* a convergence check that starts one round late
check_due_late(ii, interval, prev) ==
    ii > 1 /\ (ii + 1) % interval = 0 /\ DOMAIN prev # {}

\* the condition of the convergence check, line 110-114
check_due(ii, interval, prev) ==
    ii > 0 /\ (ii + 1) % interval = 0 /\ DOMAIN prev # {}

\* what train returns when the check succeeds in the round with loop variable ii
converged_result(ii) == ii

\* a t counted from the start of the running train call
PostT_of_call == i + 1

\* the t of _apply_post_iteration_updates
PostT == iteration

apply_post_iteration_updates(tbl, var, t) ==
    IF var = "cfr_plus" THEN [key \in DOMAIN tbl |-> apply_regret_floor(tbl[key])]
    ELSE IF var = "lcfr" THEN
        LET discount == Norm(t, t + 1)
        IN  [key \in DOMAIN tbl |->
                discount_strategy(discount_regrets(tbl[key], discount, discount), discount)]
    ELSE IF var = "dcfr" THEN
        LET pos_discount == RDiv(RPow(t, alpha), RAdd(RPow(t, alpha), One))
            neg_discount == RDiv(RPow(t, beta), RAdd(RPow(t, beta), One))
            strat_discount == Norm(IPow(t, gamma[1]), IPow(t + 1, gamma[1]))
        IN  [key \in DOMAIN tbl |->
                discount_strategy(discount_regrets(tbl[key], pos_discount, neg_discount),
                                  strat_discount)]
    ELSE tbl

(***************************************************************************)
(* The recursive traversal _cfr, one frame of the stack per active call.   *)
(***************************************************************************)
\* a call of _cfr that has just been entered
EnterFrame(state, reach_probs) ==
    [state |-> state, reach_probs |-> reach_probs, phase |-> "enter", kind |-> "",
     key |-> "", strategy |-> <<>>, acts |-> <<>>, idx |-> 0,
     action_values |-> <<>>, expected_value |-> Zero]

\* line 104-105: the call train makes for one updating player
RootFrame(state) == EnterFrame(state, [p \in 1..num_players |-> One])

Top == stack[Len(stack)]
Below == SubSeq(stack, 1, Len(stack) - 1)

\* the reach probabilities a decision node hands to the child of `action`
new_reach_probs(reach_probs, current_player, prob) ==
    [reach_probs EXCEPT ![current_player + 1] = RMul(@, prob)]

\* the reach probabilities a chance node hands to its children
chance_reach_probs(reach_probs) == reach_probs

\* line 189-192: the product of the other players' reach probabilities
RECURSIVE ProdOthers(_, _, _)
ProdOthers(reach_probs, current_player, p) ==
    IF p >= num_players THEN One
    ELSE IF p # current_player
         THEN RMul(reach_probs[p + 1], ProdOthers(reach_probs, current_player, p + 1))
         ELSE ProdOthers(reach_probs, current_player, p + 1)

\* a counterfactual reach that multiplies in the actor's own reach
cfr_reach_all(reach_probs, current_player) == ProdOthers(reach_probs, -1, 0)

cfr_reach(reach_probs, current_player) == ProdOthers(reach_probs, current_player, 0)

\* line 195-196: the amount added to the cumulative regret of `action`
regret_amount(f, action) ==
    RMul(cfr_reach(f.reach_probs, get_current_player(f.state)),
         RSub(f.action_values[action], f.expected_value))

\* a traversal that updates regret at every decision node
updates_regret_always(f, updating_player) == TRUE

\* line 188: whether the node of frame f updates regret in the pass of updating_player
updates_regret(f, updating_player) == get_current_player(f.state) = updating_player

\* line 194-196: the accumulator after the regret update of frame f
RECURSIVE update_regrets(_, _, _)
update_regrets(I, f, k) ==
    IF k > Len(f.acts) THEN I
    ELSE update_regrets(update_regret(I, f.acts[k], regret_amount(f, f.acts[k])), f, k + 1)

\* the caller's frame after the call for its next action returned value
Resume(f, value) ==
    LET action == f.acts[f.idx + 1]
    IN  [f EXCEPT
           !.action_values = IF f.kind = "decision" THEN (action :> value) @@ @ ELSE @,
           !.expected_value = RAdd(@, RMul(f.strategy[action], value)),
           !.idx = @ + 1]

\* the innermost call returns value: to its caller, or to train's player loop
Return(value) ==
    IF Len(stack) > 1
    THEN /\ stack' = Append(SubSeq(stack, 1, Len(stack) - 2), Resume(stack[Len(stack) - 1], value))
         /\ UNCHANGED <<player, pc>>
    ELSE IF player + 1 < num_players
    THEN /\ stack' = <<RootFrame(root_state)>>
         /\ player' = player + 1
         /\ UNCHANGED pc
    ELSE /\ stack' = <<>>
         /\ pc' = "post"
         /\ UNCHANGED player

TrainArgs == <<root_state, iterations, epsilon, check_interval>>
History == <<api_state, iteration0, post_t, step3, ckpt>>

\* line 157-158
CfrTerminal ==
    /\ pc = "cfr" /\ Top.phase = "enter"
    /\ is_terminal(Top.state)
    /\ Return(get_utility(Top.state, player))
    /\ UNCHANGED <<variant, infosets, iteration, prev_strategies, TrainArgs, i, ret, err,
                   History>>

\* line 162-164
CfrChance ==
    /\ pc = "cfr" /\ Top.phase = "enter"
    /\ ~is_terminal(Top.state)
    /\ get_current_player(Top.state) = -1
    /\ stack' = Append(Below, [Top EXCEPT !.phase = "loop", !.kind = "chance",
                                           !.strategy = get_chance_probabilities(Top.state),
                                           !.acts = Deals])
    /\ UNCHANGED <<variant, infosets, iteration, prev_strategies, pc, TrainArgs, i, player,
                   ret, err, History>>

\* line 172-176
CfrDecision ==
    /\ pc = "cfr" /\ Top.phase = "enter"
    /\ ~is_terminal(Top.state)
    /\ get_current_player(Top.state) # -1
    /\ LET tbl == get_infoset(infosets, Top.state)
           key == get_infoset_key(Top.state)
           infoset == tbl[key]
           weight == Top.reach_probs[get_current_player(Top.state) + 1]
       IN  /\ infosets' = [tbl EXCEPT ![key] = get_strategy(infoset, weight)]
           /\ stack' = Append(Below, [Top EXCEPT !.phase = "loop", !.kind = "decision",
                                                  !.key = key,
                                                  !.strategy = RegretMatching(infoset),
                                                  !.acts = infoset.actions])
    /\ UNCHANGED <<variant, iteration, prev_strategies, pc, TrainArgs, i, player, ret, err,
                   History>>

\* line 166-168 and 179-184: the call for the next action
CfrRecurse ==
    /\ pc = "cfr" /\ Top.phase = "loop"
    /\ Top.idx < Len(Top.acts)
    /\ LET action == Top.acts[Top.idx + 1]
           reach == IF Top.kind = "decision"
                    THEN new_reach_probs(Top.reach_probs, get_current_player(Top.state),
                                         Top.strategy[action])
                    ELSE chance_reach_probs(Top.reach_probs)
       IN  stack' = Append(stack, EnterFrame(take_action(Top.state, action), reach))
    /\ UNCHANGED <<variant, infosets, iteration, prev_strategies, pc, TrainArgs, i, player,
                   ret, err, History>>

\* line 170: a chance node returns
CfrChanceReturn ==
    /\ pc = "cfr" /\ Top.phase = "loop" /\ Top.kind = "chance"
    /\ Top.idx = Len(Top.acts)
    /\ Return(Top.expected_value)
    /\ UNCHANGED <<variant, infosets, iteration, prev_strategies, TrainArgs, i, ret, err,
                   History>>

\* line 188-198: a decision node of the updating player updates regret and returns
CfrUpdateReturn ==
    /\ pc = "cfr" /\ Top.phase = "loop" /\ Top.kind = "decision"
    /\ Top.idx = Len(Top.acts)
    /\ updates_regret(Top, player)
    /\ infosets' = [infosets EXCEPT ![Top.key] = update_regrets(@, Top, 1)]
    /\ Return(Top.expected_value)
    /\ UNCHANGED <<variant, iteration, prev_strategies, TrainArgs, i, ret, err, History>>

\* line 188, 198: a decision node of another player returns
CfrOtherReturn ==
    /\ pc = "cfr" /\ Top.phase = "loop" /\ Top.kind = "decision"
    /\ Top.idx = Len(Top.acts)
    /\ ~updates_regret(Top, player)
    /\ Return(Top.expected_value)
    /\ UNCHANGED <<variant, infosets, iteration, prev_strategies, TrainArgs, i, ret, err,
                   History>>

(***************************************************************************)
(* train and the engine's other entry points.                              *)
(***************************************************************************)
\* whether outer round ii is a checkpoint of the convergence check
is_checkpoint(ii, interval) == (ii + 1) % interval = 0

\* the sum of the per-player changes, line 116
total_change(tbl, prev) ==
    LET player_changes == calculate_strategy_change(tbl, prev).player_changes
    IN  RSumSet(player_changes, DOMAIN player_changes)

\* history: the checkpoint record after the convergence step of round i
NextCkpt ==
    IF is_checkpoint(i, check_interval) THEN get_strategy_profile(infosets) ELSE ckpt

\* a call train(r, n, e, c) on the idle engine
Train(r, n, e, c) ==
    /\ pc = "idle"
    /\ iteration + n <= MaxIter
    /\ r.cards = NoCards => iteration + n \in WholeGameRounds
    /\ root_state' = r /\ iterations' = n /\ epsilon' = e /\ check_interval' = c
    /\ i' = 0 /\ pc' = "loop" /\ ret' = -1 /\ err' = "none"
    /\ iteration0' = iteration /\ step3' = "none" /\ ckpt' = NoCheckpoint
    /\ api_state' = NoState
    /\ UNCHANGED <<variant, infosets, iteration, prev_strategies, player, stack, post_t>>

TrainCall ==
    \E r \in RootStates, n \in 0..MaxIter, e \in Epsilons, c \in 1..MaxInterval :
        Train(r, n, e, c)

\* line 100-105: the next outer round begins
TrainIterate ==
    /\ pc = "loop" /\ i < iterations
    /\ iteration' = iteration + 1
    /\ player' = 0
    /\ stack' = <<RootFrame(root_state)>>
    /\ pc' = "cfr"
    /\ UNCHANGED <<variant, infosets, prev_strategies, TrainArgs, i, ret, err, History>>

\* line 141: the loop is exhausted
TrainReturn ==
    /\ pc = "loop" /\ i >= iterations
    /\ ret' = iterations
    /\ pc' = "idle"
    /\ UNCHANGED <<variant, infosets, iteration, prev_strategies, TrainArgs, i, player,
                   stack, err, History>>

\* line 107
PostIteration ==
    /\ pc = "post"
    /\ infosets' = apply_post_iteration_updates(infosets, variant, PostT)
    /\ post_t' = PostT
    /\ pc' = "check"
    /\ UNCHANGED <<variant, iteration, prev_strategies, TrainArgs, i, player, stack, ret,
                   err, api_state, iteration0, step3, ckpt>>

\* line 110-130: the check runs and succeeds
CheckConverged ==
    /\ pc = "check"
    /\ check_due(i, check_interval, prev_strategies)
    /\ RLt(total_change(infosets, prev_strategies), epsilon)
    /\ prev_strategies' = calculate_strategy_change(infosets, prev_strategies).prev_strategies
    /\ ret' = converged_result(i)
    /\ pc' = "idle"
    /\ step3' = "stopped" /\ ckpt' = NextCkpt
    /\ UNCHANGED <<variant, infosets, iteration, TrainArgs, i, player, stack, err,
                   api_state, iteration0, post_t>>

\* line 110-125: the check runs and fails
CheckContinue ==
    /\ pc = "check"
    /\ check_due(i, check_interval, prev_strategies)
    /\ ~RLt(total_change(infosets, prev_strategies), epsilon)
    /\ prev_strategies' = calculate_strategy_change(infosets, prev_strategies).prev_strategies
    /\ i' = i + 1
    /\ pc' = "loop"
    /\ step3' = "checked" /\ ckpt' = NextCkpt
    /\ UNCHANGED <<variant, infosets, iteration, TrainArgs, player, stack, ret, err,
                   api_state, iteration0, post_t>>

\* line 131-137: no check at a checkpoint, the baseline is stored
CheckBaseline ==
    /\ pc = "check"
    /\ ~check_due(i, check_interval, prev_strategies)
    /\ is_checkpoint(i, check_interval)
    /\ prev_strategies' = store_baseline(infosets, prev_strategies)
    /\ i' = i + 1
    /\ pc' = "loop"
    /\ step3' = "baseline" /\ ckpt' = NextCkpt
    /\ UNCHANGED <<variant, infosets, iteration, TrainArgs, player, stack, ret, err,
                   api_state, iteration0, post_t>>

\* line 131-140: not a checkpoint
CheckSkip ==
    /\ pc = "check"
    /\ ~check_due(i, check_interval, prev_strategies)
    /\ ~is_checkpoint(i, check_interval)
    /\ i' = i + 1
    /\ pc' = "loop"
    /\ step3' = "off" /\ ckpt' = NextCkpt
    /\ UNCHANGED <<variant, infosets, iteration, prev_strategies, TrainArgs, player, stack,
                   ret, err, api_state, iteration0, post_t>>

\* a call get_infoset(s) on the idle engine that raises in get_infoset_key
GetInfosetRaises ==
    /\ pc = "idle"
    /\ \E s \in ApiStates :
          /\ infoset_key_raises(s)
          /\ api_state' = s
    /\ err' = "ValueError"
    /\ UNCHANGED <<variant, infosets, iteration, prev_strategies, pc, TrainArgs, i, player,
                   stack, ret, iteration0, post_t, step3, ckpt>>

\* a call get_infoset(s) on the idle engine that returns
GetInfosetReturns ==
    /\ pc = "idle"
    /\ \E s \in ApiStates :
          /\ ~infoset_key_raises(s)
          /\ api_state' = s
          /\ infosets' = get_infoset(infosets, s)
    /\ err' = "none"
    /\ UNCHANGED <<variant, iteration, prev_strategies, pc, TrainArgs, i, player, stack,
                   ret, iteration0, post_t, step3, ckpt>>

Init ==
    /\ variant \in Variants
    /\ infosets = <<>>
    /\ iteration = 0
    /\ prev_strategies = <<>>
    /\ pc = "idle"
    /\ root_state = KuhnPokerState(NoCards, "")
    /\ iterations = 0 /\ epsilon = Zero /\ check_interval = 1
    /\ i = 0 /\ player = 0 /\ stack = <<>> /\ ret = -1 /\ err = "none"
    /\ api_state = NoState
    /\ iteration0 = 0 /\ post_t = 0 /\ step3 = "none" /\ ckpt = NoCheckpoint

Next ==
    \/ TrainCall
    \/ TrainIterate
    \/ TrainReturn
    \/ CfrTerminal
    \/ CfrChance
    \/ CfrDecision
    \/ CfrRecurse
    \/ CfrChanceReturn
    \/ CfrUpdateReturn
    \/ CfrOtherReturn
    \/ PostIteration
    \/ CheckConverged
    \/ CheckContinue
    \/ CheckBaseline
    \/ CheckSkip
    \/ GetInfosetRaises
    \/ GetInfosetReturns

Spec == Init /\ [][Next]_vars

(***************************************************************************)
(* Properties.                                                             *)
(***************************************************************************)
Returned == pc = "idle" /\ ret # -1

\* the outer rounds the last train call executed
RoundsExecuted == iteration - iteration0

\* C1: what train returns is the number of outer rounds the call executed:
\* max_iterations without an early stop, the round number t of the successful
\* convergence check with one.
C1_ReturnsRoundsExecuted == Returned => ret = RoundsExecuted

\* the average strategies at this checkpoint equal those at the previous
\* checkpoint of the same train call
SameAsLastCheckpoint ==
    /\ pc = "check"
    /\ is_checkpoint(i, check_interval)
    /\ ckpt # NoCheckpoint
    /\ ckpt = get_strategy_profile(infosets)

StopsNow == pc' = "idle" /\ ret' # -1 /\ ret' <= i + 1

\* C2 as stated: whenever the average strategies of all accumulators at two
\* successive checkpoints are identical, train stops at the second one.
C2_StopsOnIdenticalSnapshots == [][SameAsLastCheckpoint => StopsNow]_vars

\* C2 amended: with epsilon > 0 and at least one accumulator in the table,
\* identical average strategies at two successive checkpoints stop train at the
\* second one; and what train returns never exceeds max_iterations.
C2_EarlyStop ==
    [][/\ (SameAsLastCheckpoint /\ RLt(Zero, epsilon) /\ DOMAIN infosets # {}) => StopsNow
       /\ ret' <= iterations']_vars

\* a train call on a terminal root, after an earlier call filled the table, has
\* stopped at its second checkpoint
C2_Witness ==
    /\ Returned /\ step3 = "stopped"
    /\ is_terminal(root_state)
    /\ DOMAIN infosets # {}
    /\ RLt(Zero, epsilon) /\ RLt(epsilon, One)
    /\ ret < iterations

\* the step is a get_infoset call from outside train, on a state without an
\* acting player
OutsideCallNoPlayer ==
    /\ pc = "idle" /\ pc' = "idle"
    /\ api_state' # NoState
    /\ get_current_player(api_state') = -1

OwnersAreActors(tbl) ==
    \A key \in DOMAIN tbl : tbl[key].player \in 0..(num_players - 1)

\* C3: get_infoset on a chance or terminal state raises and leaves the table
\* unchanged; no accumulator is ever owned by anything but a player.
C3_NoAccumulatorWithoutActor ==
    [][/\ OutsideCallNoPlayer => (err' = "ValueError" /\ infosets' = infosets)
       /\ OwnersAreActors(infosets')]_vars

\* get_infoset has raised on a terminal state, with accumulators in the table
C3_Witness ==
    /\ pc = "idle" /\ err = "ValueError"
    /\ api_state # NoState /\ is_terminal(api_state)
    /\ DOMAIN infosets # {}

\* C4: a step of the traversal pass of updating player p leaves the cumulative
\* regret of every accumulator owned by another player unchanged.
C4_RegretOnlyForUpdatingPlayer ==
    [][pc = "cfr" =>
          \A key \in DOMAIN infosets :
              infosets[key].player # player =>
                  infosets'[key].regret_sum = infosets[key].regret_sum]_vars

NonZero(f) == \E a \in DOMAIN f : f[a] # Zero

\* in the first round, the pass of player 1 has updated regret of an accumulator
\* of player 1, next to accumulators of player 0 that earlier passes filled
C4_Witness ==
    /\ pc = "cfr" /\ player = 1 /\ iteration = 1
    /\ \E key \in DOMAIN infosets :
          infosets[key].player = 1 /\ NonZero(infosets[key].regret_sum)
    /\ \E key \in DOMAIN infosets :
          infosets[key].player = 0 /\ NonZero(infosets[key].regret_sum)

ActionSet(I) == SeqRange(I.actions)
Uniform(I) == <<1, Cardinality(ActionSet(I))>>

\* C5: in every reachable state, under each variant, the average strategy of
\* every accumulator has one probability per action of its action set, each
\* >= 0, summing to 1, and is uniform when the summed strategy weight is 0.
C5_AverageStrategyIsDistribution ==
    \A key \in DOMAIN infosets :
        LET I == infosets[key]
            avg == get_average_strategy(I)
        IN  /\ DOMAIN avg = ActionSet(I)
            /\ \A a \in ActionSet(I) : avg[a][1] >= 0 /\ avg[a][2] > 0
            /\ RSumSet(avg, ActionSet(I)) = One
            /\ RSumSet(I.strategy_sum, ActionSet(I)) = Zero =>
                   \A a \in ActionSet(I) : avg[a] = Uniform(I)

\* under the discounted variant, after a discount, one accumulator has unequal
\* strategy weights and another has none
C5_Witness ==
    /\ variant = "dcfr" /\ post_t >= 2
    /\ \E key \in DOMAIN infosets :
          infosets[key].strategy_sum[PASS] # infosets[key].strategy_sum[BET]
    /\ \E key \in DOMAIN infosets :
          RSumSet(infosets[key].strategy_sum, ActionSet(infosets[key])) = Zero

FloorStep == pc = "post" /\ variant = "cfr_plus"

\* C6 as stated: the floor leaves no cumulative regret negative and increases none.
C6_FloorNeverIncreases ==
    [][FloorStep =>
          \A key \in DOMAIN infosets : \A a \in ActionSet(infosets[key]) :
              /\ RLe(Zero, infosets'[key].regret_sum[a])
              /\ RLe(infosets'[key].regret_sum[a], infosets[key].regret_sum[a])]_vars

AllRegretsNonNegative(tbl) ==
    \A key \in DOMAIN tbl : \A a \in ActionSet(tbl[key]) :
        RLe(Zero, tbl[key].regret_sum[a])

\* C6 amended: the floor leaves no cumulative regret negative, raises the
\* negative ones to exactly 0 and leaves the others as they were; under
\* cfr_plus all regrets are >= 0 at the end of every outer round.
C6_FloorClampsNegatives ==
    [][/\ FloorStep =>
            \A key \in DOMAIN infosets : \A a \in ActionSet(infosets[key]) :
                /\ RLe(Zero, infosets'[key].regret_sum[a])
                /\ RLe(Zero, infosets[key].regret_sum[a]) =>
                       infosets'[key].regret_sum[a] = infosets[key].regret_sum[a]
                /\ RLt(infosets[key].regret_sum[a], Zero) =>
                       infosets'[key].regret_sum[a] = Zero
       /\ (variant' = "cfr_plus" /\ pc' \notin {"cfr", "post"}) =>
              AllRegretsNonNegative(infosets')]_vars

\* under cfr_plus, after the floor of a round, an accumulator the round visited
\* has one regret at 0 and one positive
C6_Witness ==
    /\ variant = "cfr_plus" /\ pc = "check"
    /\ \E key \in DOMAIN infosets :
          /\ infosets[key].regret_sum[BET] = Zero
          /\ RLt(Zero, infosets[key].regret_sum[PASS])
          /\ RLt(Zero, infosets[key].reach_probability_sum)

\* the traversal enters a decision node
DecisionEntry ==
    /\ pc = "cfr" /\ Top.phase = "enter"
    /\ ~is_terminal(Top.state)
    /\ get_current_player(Top.state) # -1

PositivePart(r) == IF r[1] > 0 THEN r ELSE Zero

\* C7: get_strategy returns the regret-matching distribution (positive parts
\* over their sum, uniform when that sum is not > 0), adds reach_weight times
\* it to the strategy weights and reach_weight to the reach counter, and leaves
\* cumulative regret, and every other accumulator, unchanged.
C7_RegretMatching ==
    [][DecisionEntry =>
          LET key == get_infoset_key(Top.state)
              before == IF key \in DOMAIN infosets THEN infosets[key]
                        ELSE InfoSet(key, get_actions(Top.state),
                                     get_current_player(Top.state))
              after == infosets'[key]
              strategy == stack'[Len(stack')].strategy
              weight == Top.reach_probs[get_current_player(Top.state) + 1]
              A == ActionSet(before)
              sumpos == RSumSet([a \in A |-> PositivePart(before.regret_sum[a])], A)
          IN  /\ DOMAIN strategy = A
              /\ \A a \in A :
                    IF sumpos[1] > 0
                    THEN RMul(strategy[a], sumpos) = PositivePart(before.regret_sum[a])
                    ELSE strategy[a] = Uniform(before)
              /\ \A a \in A :
                    after.strategy_sum[a] =
                        RAdd(before.strategy_sum[a], RMul(weight, strategy[a]))
              /\ after.reach_probability_sum = RAdd(before.reach_probability_sum, weight)
              /\ after.regret_sum = before.regret_sum
              /\ \A other \in DOMAIN infosets \ {key} : infosets'[other] = infosets[other]]_vars

\* a decision node has just derived a strategy that is not uniform, from a
\* positive and a negative regret, and added it to the strategy weights
C7_Witness ==
    /\ pc = "cfr" /\ Top.phase = "loop" /\ Top.kind = "decision" /\ Top.idx = 0
    /\ Top.strategy[PASS] # Top.strategy[BET]
    /\ \E a \in ActionSet(infosets[Top.key]) : RLt(infosets[Top.key].regret_sum[a], Zero)
    /\ Top.reach_probs[get_current_player(Top.state) + 1] # Zero
    /\ infosets[Top.key].strategy_sum[PASS] # infosets[Top.key].strategy_sum[BET]

\* C8 as stated: the post-iteration update of the k-th round of every train
\* call is computed from t = k, the 1-based counter of that call's loop.
C8_UsesCallCounter == pc = "check" => post_t = i + 1

\* C8 amended: the post-iteration update of the k-th round of a train call is
\* computed from t = n0 + k, the engine's iteration counter, where n0 counts
\* the rounds of earlier calls (t = k on a fresh engine); under lcfr it
\* multiplies every regret and strategy weight by t/(t+1).
C8_UsesEngineCounter ==
    [][pc = "post" =>
          LET t == iteration0 + i + 1
          IN  /\ post_t' = t
              /\ t = iteration
              /\ variant = "lcfr" =>
                    \A key \in DOMAIN infosets : \A a \in ActionSet(infosets[key]) :
                        /\ infosets'[key].regret_sum[a] =
                               RMul(infosets[key].regret_sum[a], Norm(t, t + 1))
                        /\ infosets'[key].strategy_sum[a] =
                               RMul(infosets[key].strategy_sum[a], Norm(t, t + 1))]_vars

\* under lcfr, a round of a train call on an already trained engine has been
\* discounted with the engine's counter, which is not the call's
C8_Witness ==
    /\ pc = "check" /\ variant = "lcfr"
    /\ iteration0 > 0
    /\ post_t = iteration /\ post_t # i + 1
    /\ \E key \in DOMAIN infosets : NonZero(infosets[key].regret_sum)

\* C9: after the convergence step of a round t that is a multiple of
\* check_interval, the snapshot holds the current average strategy of every
\* accumulator in the table, whether the check ran, was skipped or stopped
\* train; and the check runs only when a snapshot existed before.
C9_SnapshotRefreshed ==
    [][(pc = "check" /\ is_checkpoint(i, check_interval)) =>
          /\ \A key \in DOMAIN infosets' :
                /\ key \in DOMAIN prev_strategies'
                /\ prev_strategies'[key] = get_average_strategy(infosets'[key])
          /\ step3' \in {"checked", "stopped"} => DOMAIN prev_strategies # {}]_vars

\* a check has run at a checkpoint without stopping train, and the snapshot
\* holds the average strategies of a table with unequal strategy weights
C9_Witness ==
    /\ pc = "loop" /\ step3 = "checked"
    /\ is_checkpoint(i - 1, check_interval)
    /\ \E key \in DOMAIN infosets :
          /\ key \in DOMAIN prev_strategies
          /\ prev_strategies[key] = get_average_strategy(infosets[key])
          /\ prev_strategies[key][PASS] # prev_strategies[key][BET]

\* the product of f[x] over the elements x of the finite set S
RECURSIVE RProdSet(_, _)
RProdSet(f, S) ==
    IF S = {} THEN One
    ELSE LET x == CHOOSE x \in S : TRUE IN RMul(f[x], RProdSet(f, S \ {x}))

Players == 0..(num_players - 1)
Actor(f) == get_current_player(f.state)

\* the frames that stay on the stack keep their state, reach and strategy
FramesKept ==
    \A k \in 1..Len(stack) :
        (k <= Len(stack') /\ stack[k].phase = "loop" /\ stack'[k].phase = "loop") =>
            /\ stack'[k].state = stack[k].state
            /\ stack'[k].reach_probs = stack[k].reach_probs
            /\ stack'[k].strategy = stack[k].strategy

\* a node calls _cfr for its next action
ChildVisited ==
    (Top.phase = "loop" /\ Top.idx < Len(Top.acts)) =>
        LET child == stack'[Len(stack')]
            action == Top.acts[Top.idx + 1]
        IN  /\ Len(stack') = Len(stack) + 1
            /\ child.state = take_action(Top.state, action)
            /\ IF Top.kind = "decision"
               THEN \A q \in Players :
                        child.reach_probs[q + 1] =
                            IF q = Actor(Top)
                            THEN RMul(Top.reach_probs[q + 1], Top.strategy[action])
                            ELSE Top.reach_probs[q + 1]
               ELSE child.reach_probs = Top.reach_probs

\* a call returns to the node that made it
ValueRecorded ==
    (Len(stack) > 1 /\ (Top.phase = "enter" => is_terminal(Top.state))
                    /\ (Top.phase = "loop" => Top.idx = Len(Top.acts))) =>
        LET caller == stack[Len(stack) - 1]
            resumed == stack'[Len(stack')]
            action == caller.acts[caller.idx + 1]
            value == IF Top.phase = "enter" THEN get_utility(Top.state, player)
                     ELSE Top.expected_value
        IN  /\ Len(stack') = Len(stack) - 1
            /\ resumed.idx = caller.idx + 1
            /\ resumed.expected_value =
                   RAdd(caller.expected_value, RMul(caller.strategy[action], value))
            /\ caller.kind = "decision" => resumed.action_values[action] = value

\* a decision node of the updating player has visited all its children
RegretAdded ==
    (Top.phase = "loop" /\ Top.kind = "decision" /\ Top.idx = Len(Top.acts)
                        /\ Actor(Top) = player) =>
        LET A == SeqRange(get_actions(Top.state))
            counterfactual_reach ==
                RProdSet([q \in Players |-> Top.reach_probs[q + 1]], Players \ {Actor(Top)})
            expected_value ==
                RSumSet([a \in A |-> RMul(Top.strategy[a], Top.action_values[a])], A)
        IN  /\ Top.expected_value = expected_value
            /\ \A a \in A :
                  infosets'[Top.key].regret_sum[a] =
                      RAdd(infosets[Top.key].regret_sum[a],
                           RMul(counterfactual_reach,
                                RSub(Top.action_values[a], expected_value)))
            /\ \A other \in DOMAIN infosets \ {Top.key} : infosets'[other] = infosets[other]

\* C10: at a decision node of the updating player the traversal adds
\* counterfactual_reach x (action_value - expected_value) to each action's
\* regret, with the reach of every player but the actor, the expected value
\* weighted by the strategy derived on entry; each child of a decision node is
\* visited with the actor's reach multiplied by the action's probability, and
\* each child of a chance node with the reach unchanged.
C10_CounterfactualRegret ==
    [][pc = "cfr" => (FramesKept /\ ChildVisited /\ ValueRecorded /\ RegretAdded)]_vars

\* in the whole game, the pass of player 0 has updated J:pb after the deal JQ:
\* the values -1 and -2 under the uniform strategy, weighted by player 1's
\* reach 1/2 and not by player 0's own reach 1/2
C10_Witness ==
    /\ pc = "cfr" /\ player = 0 /\ iteration = 1
    /\ root_state.cards = NoCards
    /\ "J:pb" \in DOMAIN infosets
    /\ infosets["J:pb"].regret_sum[PASS] = <<1, 4>>
    /\ infosets["J:pb"].regret_sum[BET] = <<-1, 4>>

\* the state whose key the step looks up: the node the traversal is at, or
\* the argument of a get_infoset call from outside train
Encountered == IF pc = "cfr" THEN Top.state ELSE api_state'

\* every key of the table stays, with the owner and the ordered action set
\* recorded at creation
KeysKept ==
    \A key \in DOMAIN infosets :
        /\ key \in DOMAIN infosets'
        /\ infosets'[key].key = infosets[key].key
        /\ infosets'[key].player = infosets[key].player
        /\ infosets'[key].actions = infosets[key].actions
        /\ infosets'[key].num_actions = infosets[key].num_actions

\* a key enters the table only for the state being looked up, with that
\* state's acting player and actions, and no regret
CreatedLazily ==
    \A key \in DOMAIN infosets' \ DOMAIN infosets :
        /\ key = get_infoset_key(Encountered)
        /\ infosets'[key].key = key
        /\ infosets'[key].player = get_current_player(Encountered)
        /\ infosets'[key].actions = get_actions(Encountered)
        /\ \A a \in ActionSet(infosets'[key]) : infosets'[key].regret_sum[a] = Zero

\* the step is a get_infoset call from outside train that returns
OutsideCallReturns ==
    /\ pc = "idle" /\ pc' = "idle"
    /\ api_state' # NoState /\ err' = "none"

\* a call from outside train changes nothing on a hit, and adds one
\* accumulator with zero sums on a miss
LookupLeavesSums ==
    OutsideCallReturns =>
        LET key == get_infoset_key(api_state')
        IN  /\ key \in DOMAIN infosets'
            /\ \A other \in DOMAIN infosets : infosets'[other] = infosets[other]
            /\ key \notin DOMAIN infosets =>
                  infosets'[key] = InfoSet(key, get_actions(api_state'),
                                           get_current_player(api_state'))

\* a traversal that meets a key already in the table goes on with the sums
\* it holds: the regret is kept, the reach counter is added to
TraversalHitKeepsSums ==
    (DecisionEntry /\ get_infoset_key(Top.state) \in DOMAIN infosets) =>
        LET key == get_infoset_key(Top.state)
            weight == Top.reach_probs[get_current_player(Top.state) + 1]
        IN  /\ infosets'[key].regret_sum = infosets[key].regret_sum
            /\ infosets'[key].reach_probability_sum =
                   RAdd(infosets[key].reach_probability_sum, weight)

\* C11: across train and get_infoset calls the table only grows: a key once
\* present stays, with the owner and ordered action set recorded at creation; a
\* key is created only for the state looked up; a lookup hit from outside train
\* leaves every accumulator as it is, and a hit inside a traversal continues
\* with the existing sums instead of a new accumulator.
C11_TableOnlyGrows ==
    [][KeysKept /\ CreatedLazily /\ LookupLeavesSums /\ TraversalHitKeepsSums]_vars

\* get_infoset was called from outside train on K:pb after the whole game was
\* trained: the call hit an accumulator with strategy weights and regret, in a
\* table of all twelve keys
C11_Witness ==
    /\ pc = "idle" /\ err = "none"
    /\ api_state = KuhnPokerState(<<2, 1>>, "pb")
    /\ "K:pb" \in DOMAIN infosets
    /\ NonZero(infosets["K:pb"].strategy_sum)
    /\ NonZero(infosets["K:pb"].regret_sum)
    /\ Cardinality(DOMAIN infosets) = 12

====
